---- MODULE Spec2Model ----
(***************************************************************************)
(* VK-Quiz-Bot: the quiz round driver (QuizManager.quiz_mainloop), the     *)
(* answer handler (Handler.members_quiz_answers_handler), the roster       *)
(* (UserManager) and the save-state store (QuizManager.__save_state /      *)
(* _save_state_create), as one state machine.                              *)
(*                                                                         *)
(* Threads: the quiz thread runs quiz_mainloop; every callback event gets  *)
(* its own handler thread, and the handler threads are serialised by       *)
(* Handler._locker.  Every object built on UtilsInitDefault creates its    *)
(* own RLock (utils.py:74); quiz_mainloop takes none.  So a handler step   *)
(* is atomic with respect to other handlers only, and the steps of the     *)
(* quiz thread interleave with the steps of the handler in flight.         *)
(*                                                                         *)
(* The roster is one store: user_manager.py addresses it by the JSON keys  *)
(* ("Members_VK_page_IDs"), handler.py and quiz_manager.py by the TempInfo *)
(* attributes (members_vk_page_ids).                                       *)
(***************************************************************************)
EXTENDS Integers, Sequences, FiniteSets, TLC

\* ---------------------------------------------------------------- bounds
MaxUsers == 3        \* VK page ids 1..MaxUsers; id 1 is the chat admin
MaxEvents == 2       \* callback events delivered by the listener
MaxRounds == 2       \* rounds the quiz thread may open
MainPoolSize == 2    \* questions in data/questions_list.json
BlitzPoolSize == 1   \* questions in data/blitz_questions_list.json
RoundLimit == 4      \* QUIZ_TIME_DELAY_SAMPLE * time_on_quiz_round, in seconds
MaxEdits == 1        \* questions the operator adds to a question file
MaxStarts == 2       \* starts of the process

\* ------------------------------------------------------------- constants
TIME_DELAY_5 == 5
MEMBER_QUANT_TO_KEEP_BLITZ == 2
MEMBERS_TO_FINISH_BOUND == 1

\* bot_config["seed"] = None, and __seed before the constructor has set it
None == -1

\* int(datetime.now().timestamp()), in seconds: the clock at the n-th start
\* of the process reads n or more
Timestamps == 1..MaxStarts

Users == 1..MaxUsers
ChatAdmins == {1}
Modes == {"Normal", "Blitz", "Score"}
Payloads == {"right", "wrong", "score"}

\* ---------------------------------------------------------------- helpers
Range(s) == {s[i] : i \in 1..Len(s)}

Count(s, x) == Cardinality({i \in 1..Len(s) : s[i] = x})

\* list.remove(x): drops the first occurrence
ListRemove(s, x) ==
    LET i == CHOOSE k \in 1..Len(s) : s[k] = x /\ \A j \in 1..(k - 1) : s[j] # x
    IN  SubSeq(s, 1, i - 1) \o SubSeq(s, i + 1, Len(s))

\* dict.get(key, default) and dict[key] = value on a dict modelled as a function
DictGet(d, k, default) == IF k \in DOMAIN d THEN d[k] ELSE default

DictSet(d, k, v) == [x \in (DOMAIN d) \cup {k} |-> IF x = k THEN v ELSE d[x]]

EmptyDict == [x \in {} |-> 0]

\* the members of a set as a list in ascending order
RECURSIVE SetToSeq(_)
SetToSeq(S) ==
    IF S = {} THEN <<>>
    ELSE LET m == CHOOSE x \in S : \A y \in S : x <= y
         IN  <<m>> \o SetToSeq(S \ {m})

\* ------------------------------------------------------------- variables
VARIABLES
    proc,          \* the process: "boot", "running", "finalizing", "terminated",
                   \* "failed" (ended by an exception of BotCore.__init__)
    bot_config,    \* data/bot_config.json
    save_state,    \* dump/save_state.bin: <<>> when absent, else <<checkpoint>>
    flags,         \* dump/*.flag files, by the second in their name: "past" is a
                   \* second the clock has passed, "now" one it has not
    pool_size,     \* questions per question file, by file name
    malformed,     \* the question files that do not hold well-formed JSON
    chat_members,  \* non-admin users in the chat
    chat_admins,   \* admins of the chat
    answer_block,  \* BotCore._answer_block
    stop_event,    \* BotCore._stop_event
    temp_info,     \* BotCore._temp_info (TempInfo)
    pc,            \* where the quiz thread is
    dump_data,     \* QuizManager.__dump_data: <<>> for None
    crash_state,   \* QuizManager.__crash_state
    already_used_question_numbers,
    question_list_to_load,
    current_question_number,
    round_counter,
    time_wait,
    questions_list,           \* QuizManager.__questions_list (the scores)
    members_queued_to_kick,   \* local of __end_of_time_handler
    locker,        \* owner of Handler._locker: "free", "answer", "stop"
    h,             \* the answer handler invocation holding the lock
    events,        \* callback events dispatched so far
    replies,       \* messages.sendMessageEventAnswer calls made so far
    reply,         \* the event answers sent by the last step
    listener_started,   \* MembersQuizAnswersListenerThread is running
    rounds_opened, \* rounds opened so far (bounds the run)
    at_block,      \* history: the roster and the right-answer list as they were
                   \* when line 394 blocked the answers, until the close is over
    __seed,        \* QuizManager.__seed
    starts,        \* process starts so far
    save_seed,     \* history: the seed of the session that wrote save_state
    announced,     \* history: blitz_quiz_start_text messages sent in the session
    winner_text    \* history: the last announcement of __finish_quiz in the session

vars == <<proc, bot_config, save_state, flags, pool_size, malformed, chat_members, chat_admins,
          answer_block, stop_event, temp_info, pc, dump_data, crash_state,
          already_used_question_numbers, question_list_to_load,
          current_question_number, round_counter, time_wait, questions_list,
          members_queued_to_kick, locker, h, events, replies, reply,
          listener_started, rounds_opened, at_block,
          __seed, starts, save_seed, announced, winner_text>>

diskVars == <<save_state, flags, pool_size, malformed, chat_members, chat_admins>>
quizVars == <<crash_state, already_used_question_numbers, question_list_to_load,
              current_question_number, round_counter, time_wait, questions_list,
              members_queued_to_kick>>
handlerVars == <<locker, h, events, replies>>
lifeVars == <<__seed, starts, save_seed, announced, winner_text>>

\* --------------------------------------------------------------- TempInfo
TempInfo ==
    [members_vk_page_ids |-> <<>>,
     admin_vk_pages_ids |-> {},
     members_answered_on_quiz_right |-> <<>>,
     members_answered_on_quiz |-> <<>>,
     members_scores |-> EmptyDict,
     members_scores_keys |-> <<>>,   \* list(members_scores.keys()): a dict keeps the order of insertion
     get_chat_first_start |-> TRUE,
     start_function_first_start |-> TRUE,
     blitz_start |-> FALSE]

\* the list pickled by _save_state_create
Checkpoint(ti, list, used, current, round, wait) ==
    [temp_info |-> ti, question_list_to_load |-> list,
     already_used_question_numbers |-> used, current_question_number |-> current,
     round_counter |-> round, time_wait |-> wait]

\* a save_state.bin left by an earlier session, finalized in the countdown of
\* round 1 after one right answer
OldCheckpoint ==
    Checkpoint([TempInfo EXCEPT !.members_vk_page_ids = SetToSeq(Users \ ChatAdmins),
                                !.admin_vk_pages_ids = ChatAdmins,
                                !.members_answered_on_quiz = <<2>>,
                                !.members_answered_on_quiz_right = <<2>>,
                                !.get_chat_first_start = FALSE,
                                !.start_function_first_start = FALSE],
               "questions_list", <<0>>, 0, 1, TIME_DELAY_5)

\* a save_state.bin left by a session that was finalized after /get_chat and
\* before any quiz
IdleCheckpoint ==
    Checkpoint([TempInfo EXCEPT !.members_vk_page_ids = SetToSeq(Users \ ChatAdmins),
                                !.admin_vk_pages_ids = ChatAdmins,
                                !.get_chat_first_start = FALSE],
               "none", <<>>, -1, 1, 0)

\* the scores of the questions of a question file of n questions
QuestionScore(i) == IF i % 3 = 2 THEN 2 ELSE 5

load_json(n) == [i \in 1..n |-> QuestionScore(i - 1)]

HandlerIdle == [pc |-> "none", user |-> 0, payload |-> "none"]

\* data/bot_config.json, the fields the quiz reads
Configs ==
    [quiz_mode : Modes,
     random_selection_for_quiz_questions : BOOLEAN,
     seed : {None, 0},
     ignore_save_state : BOOLEAN,
     force_load_save_state : BOOLEAN]

\* a start with an empty dump directory and no recovery option set
CleanStart ==
    /\ save_state = <<>>
    /\ flags = {}
    /\ ~bot_config.ignore_save_state
    /\ ~bot_config.force_load_save_state

\* a restart after a fault: the save state of the broken session and its flag
CrashStart ==
    /\ save_state = <<OldCheckpoint>>
    /\ flags = {"past"}
    /\ ~bot_config.ignore_save_state
    /\ ~bot_config.force_load_save_state

\* ------------------------------------------------------------------- Init
\* The process before BotCore.__init__: the configuration and the dump
\* directory are the inputs, everything else has its constructor value.
StartUpInit ==
    /\ proc = "boot"
    /\ bot_config \in Configs
    /\ save_state \in {<<>>, <<OldCheckpoint>>, <<IdleCheckpoint>>}
    /\ flags \in {{}, {"past"}, {"now"}}
    /\ pool_size = [questions_list |-> MainPoolSize, blitz_questions_list |-> BlitzPoolSize]
    /\ malformed \in {{}, {"questions_list"}}
    /\ chat_members = Users \ ChatAdmins
    /\ chat_admins = ChatAdmins
    /\ answer_block = TRUE
    /\ stop_event = FALSE
    /\ temp_info = TempInfo
    /\ pc = "idle"
    /\ dump_data = <<>>
    /\ crash_state = FALSE
    /\ already_used_question_numbers = <<>>
    /\ question_list_to_load = "none"
    /\ current_question_number = -1
    /\ round_counter = 1
    /\ time_wait = 0
    /\ questions_list = <<>>
    /\ members_queued_to_kick = {}
    /\ locker = "free"
    /\ h = HandlerIdle
    /\ events = 0
    /\ replies = 0
    /\ reply = <<>>
    /\ listener_started = FALSE
    /\ rounds_opened = 0
    /\ at_block = <<>>
    /\ __seed = None
    /\ starts = 1
    /\ save_seed = None
    /\ announced = 0
    /\ winner_text = <<>>

\* The sessions that are run through: every mode from a clean start, the
\* random selection in Normal mode, and a Normal session restarted after a
\* fault.  (SpecStartUp runs the start-up itself over every input.)
Init ==
    /\ StartUpInit
    /\ malformed = {}
    /\ bot_config.seed = 0
    /\ \/ /\ CleanStart
          /\ bot_config.random_selection_for_quiz_questions
                 => bot_config.quiz_mode = "Normal"
       \/ /\ CrashStart
          /\ bot_config.quiz_mode = "Normal"
          /\ ~bot_config.random_selection_for_quiz_questions

\* a start with the load of a save state forced and no flag
ForcedStart ==
    /\ save_state \in {<<>>, <<IdleCheckpoint>>}
    /\ flags = {}
    /\ ~bot_config.ignore_save_state
    /\ bot_config.force_load_save_state

\* The sessions that are run through start after start: Blitz sessions with
\* the load of the save state forced and the seed taken from the clock.
LifeInit ==
    /\ StartUpInit
    /\ malformed = {}
    /\ ForcedStart
    /\ bot_config.quiz_mode = "Blitz"
    /\ ~bot_config.random_selection_for_quiz_questions
    /\ bot_config.seed = None

\* __save_state with the force option looked at before the ignore option
__save_state_ForceFirst(file_exists, dumped_data, config, flag_exists) ==
    IF file_exists
    THEN IF flag_exists \/ config.force_load_save_state THEN dumped_data
         ELSE <<>>
    ELSE <<>>

\* ------------------------------------------------------- dump directory
\* ErrorNotifier.create_exception_flag: a flag named by the present second
create_exception_flag(files) == files \cup {"now"}

\* ErrorNotifier.remove_previous_flags: the flags of a second before the
\* present one are removed
remove_previous_flags(files) == {file \in files : ~(file = "past")}

\* the objects of the pickled list, in the order pickle_dump writes them
CheckpointFields ==
    <<"temp_info", "question_list_to_load", "already_used_question_numbers",
      "current_question_number", "round_counter", "time_wait">>

\* DataManager.pickle_dump stopped after k objects: the file holds the first k
TornDump(data, k) == [f \in {CheckpointFields[i] : i \in 1..k} |-> data[f]]

\* where pickle_dump may fail: before the first object, and halfway
TornLengths == {0, 3}

\* ------------------------------------------------- QuizManager.__init__
\* QuizManager.__save_state: what is loaded from dump/save_state.bin
__save_state(file_exists, dumped_data, config, flag_exists) ==
    IF file_exists
    THEN IF config.ignore_save_state THEN <<>>
         ELSE IF flag_exists \/ config.force_load_save_state THEN dumped_data
         ELSE <<>>
    ELSE <<>>

\* the objects a process holds, as its constructors leave them; the answer
\* event of a handler that ends with the process is lost with it
MemoryLost ==
    /\ answer_block' = TRUE
    /\ stop_event' = FALSE
    /\ temp_info' = TempInfo
    /\ pc' = "idle"
    /\ dump_data' = <<>>
    /\ crash_state' = FALSE
    /\ already_used_question_numbers' = <<>>
    /\ question_list_to_load' = "none"
    /\ current_question_number' = -1
    /\ round_counter' = 1
    /\ time_wait' = 0
    /\ questions_list' = <<>>
    /\ members_queued_to_kick' = {}
    /\ locker' = "free"
    /\ h' = HandlerIdle
    /\ events' = replies
    /\ replies' = replies
    /\ reply' = <<>>
    /\ listener_started' = FALSE
    /\ at_block' = <<>>
    /\ __seed' = None

\* BotCore.__init__ up to QuizManager.__init__: a recovered session restores
\* the pickled fields, drops the old flags and starts the quiz thread at once.
\* A list shorter than six objects raises IndexError in lines 103-106: main.py
\* leaves a flag and the process ends.
QuizManagerInit ==
    /\ proc = "boot"
    /\ LET data == __save_state(save_state # <<>>, save_state, bot_config, flags # {})
       IN  /\ __seed' \in IF bot_config.seed = None THEN {t \in Timestamps : t >= starts}
                         ELSE {bot_config.seed}
           /\ dump_data' = data
           /\ IF data = <<>>
              THEN /\ proc' = "running"
                   /\ already_used_question_numbers' = <<>>
                   /\ question_list_to_load' = "none"
                   /\ crash_state' = FALSE
                   /\ current_question_number' = -1
                   /\ round_counter' = 1
                   /\ time_wait' = 0
                   /\ UNCHANGED <<temp_info, flags, pc, listener_started>>
              ELSE IF DOMAIN data[1] = Range(CheckpointFields)
              THEN /\ proc' = "running"
                   /\ question_list_to_load' = data[1].question_list_to_load
                   /\ already_used_question_numbers' = data[1].already_used_question_numbers
                   /\ current_question_number' = data[1].current_question_number
                   /\ round_counter' = data[1].round_counter
                   /\ time_wait' = data[1].time_wait
                   /\ crash_state' = TRUE
                   /\ temp_info' = data[1].temp_info
                   /\ flags' = remove_previous_flags(flags)
                   /\ pc' = "loop"
                   /\ listener_started' = TRUE
              ELSE /\ proc' = "failed"
                   /\ flags' = create_exception_flag(flags)
                   /\ UNCHANGED <<already_used_question_numbers, question_list_to_load,
                                  crash_state, current_question_number, round_counter,
                                  time_wait, temp_info, pc, listener_started>>
    /\ reply' = <<>>
    /\ UNCHANGED <<bot_config, save_state, pool_size, malformed, chat_members, chat_admins, answer_block,
                   stop_event, questions_list, members_queued_to_kick, handlerVars,
                   rounds_opened, at_block>>
    /\ announced' = IF dump_data' = <<>> THEN 0 ELSE announced
    /\ winner_text' = IF dump_data' = <<>> THEN <<>> ELSE winner_text
    /\ UNCHANGED <<starts, save_seed>>

Alive == {"loop", "json_wait", "select", "pool_wait", "publish", "blitz_wait", "timer",
          "close", "kick", "reset", "clear_right"}

Up == proc \in {"running", "finalizing"}

\* ------------------------------------------------ commands (main_handler)
\* get_chat without the tests of lines 93 and 98
get_chat_NoTest(ti) ==
    [ti EXCEPT !.admin_vk_pages_ids = @ \cup chat_admins,
               !.members_vk_page_ids = @ \o SetToSeq(chat_members)]

\* UserManager.get_chat: the chat's admins and members are merged into the roster
get_chat(ti) ==
    [ti EXCEPT !.admin_vk_pages_ids = @ \cup chat_admins,
               !.members_vk_page_ids =
                   @ \o SetToSeq(chat_members \ Range(ti.members_vk_page_ids))]

\* Handler.__get_chat_handler: anyone may run the first /get_chat, admins the later ones
GetChatCommand(u) ==
    /\ Up
    /\ locker = "free"
    /\ u \in temp_info.admin_vk_pages_ids \/ temp_info.get_chat_first_start
    /\ temp_info' = get_chat([temp_info EXCEPT !.get_chat_first_start = FALSE])
    /\ temp_info' # temp_info
    /\ reply' = <<>>
    /\ UNCHANGED <<proc, bot_config, diskVars, answer_block, stop_event, pc, dump_data,
                   quizVars, handlerVars, listener_started, rounds_opened, at_block>>
    /\ UNCHANGED lifeVars

\* Handler.__start_handler: an admin starts the quiz thread
StartCommand(u) ==
    /\ Up
    /\ locker = "free"
    /\ u \in temp_info.admin_vk_pages_ids
    /\ temp_info.start_function_first_start
    /\ temp_info' = [temp_info EXCEPT !.start_function_first_start = FALSE]
    /\ pc' = "loop"
    /\ listener_started' = TRUE
    /\ reply' = <<>>
    /\ UNCHANGED <<proc, bot_config, diskVars, answer_block, stop_event, dump_data,
                   quizVars, handlerVars, rounds_opened, at_block>>
    /\ UNCHANGED lifeVars

\* Handler.__stop_handler: set the stop event and join the quiz thread, holding
\* Handler._locker (main_handler) all the while
StopCommand(u) ==
    /\ Up
    /\ locker = "free"
    /\ u \in temp_info.admin_vk_pages_ids
    /\ ~temp_info.start_function_first_start
    /\ temp_info' = [temp_info EXCEPT !.start_function_first_start = TRUE]
    /\ stop_event' = TRUE
    /\ locker' = "stop"
    /\ reply' = <<>>
    /\ UNCHANGED <<proc, bot_config, diskVars, answer_block, pc, dump_data, quizVars,
                   h, events, replies, listener_started, rounds_opened, at_block>>
    /\ UNCHANGED lifeVars

StopJoin ==
    /\ Up
    /\ locker = "stop"
    /\ pc \notin Alive
    /\ stop_event' = FALSE
    /\ locker' = "free"
    /\ reply' = <<>>
    /\ UNCHANGED <<proc, bot_config, diskVars, answer_block, temp_info, pc, dump_data,
                   quizVars, h, events, replies, listener_started, rounds_opened, at_block>>
    /\ UNCHANGED lifeVars

\* ------------------------------------------------- quiz thread: RoundInit
\* UserManager.get_name: the display name of a page
get_name(id) == <<"name", id>>

\* the key lookup that takes the last key holding the score
KeyOfScore_Last(ti, score) ==
    LET at == {i \in 1..Len(ti.members_scores_keys) :
                   ti.members_scores[ti.members_scores_keys[i]] = score}
    IN  ti.members_scores_keys[CHOOSE i \in at : \A j \in at : j <= i]

\* list(score_dict.keys())[list(score_dict.values()).index(score)]: the first
\* key, in the order of insertion, that holds the score
KeyOfScore(ti, score) ==
    LET at == {i \in 1..Len(ti.members_scores_keys) :
                   ti.members_scores[ti.members_scores_keys[i]] = score}
    IN  ti.members_scores_keys[CHOOSE i \in at : \A j \in at : i <= j]

\* QuizManager.__finish_quiz (lines 171-194): the announcement that ends the
\* quiz. max() of an empty score table raises the ValueError of line 191.
__finish_quiz(mode, ti) ==
    IF mode = "Score"
    THEN IF DOMAIN ti.members_scores = {}
         THEN [text |-> "winner_do_not_found_text"]
         ELSE LET values == {ti.members_scores[k] : k \in DOMAIN ti.members_scores}
                  max_score == CHOOSE v \in values : \A w \in values : w <= v
                  min_score == CHOOSE v \in values : \A w \in values : v <= w
              IN  [text |-> "winner_score_text",
                   WINNER_NAME |-> get_name(KeyOfScore(ti, max_score)),
                   MAX_SCORE |-> max_score, MIN_SCORE |-> min_score,
                   MIN_SCORE_MEMBER |-> get_name(KeyOfScore(ti, min_score))]
    ELSE [text |-> "winner_score_text",
          WINNER_NAME |-> get_name(ti.members_vk_page_ids[1])]

\* the round initialisation with the finish bound applied in every mode
__quiz_iteration_init_AnyMode(mode, ti, round, used) ==
    [go |-> Len(ti.members_vk_page_ids) # 1, temp_info |-> ti, round_counter |-> round,
     already_used_question_numbers |-> used,
     question_list_to_load |-> "questions_list",
     blitz_quiz_start_text |-> FALSE]

\* the round initialisation that never ends the quiz
__quiz_iteration_init_NoFinish(mode, ti, round, used) ==
    [go |-> TRUE, temp_info |-> ti, round_counter |-> round,
     already_used_question_numbers |-> used,
     question_list_to_load |-> IF mode = "Blitz" /\ Len(ti.members_vk_page_ids) = 2
                               THEN "blitz_questions_list" ELSE "questions_list",
     blitz_quiz_start_text |-> FALSE]

\* QuizManager.__quiz_iteration_init, as the fields it leaves behind:
\* go is its return value (False after __finish_quiz)
__quiz_iteration_init(mode, ti, round, used) ==
    LET n == Len(ti.members_vk_page_ids)
        keep == [go |-> TRUE, temp_info |-> ti, round_counter |-> round,
                 already_used_question_numbers |-> used,
                 question_list_to_load |-> "questions_list",
                 blitz_quiz_start_text |-> FALSE]
    IN  IF mode = "Blitz" /\ n = MEMBER_QUANT_TO_KEEP_BLITZ
        THEN IF ~ti.blitz_start
             THEN [keep EXCEPT !.round_counter = 1,
                               !.temp_info = [ti EXCEPT !.blitz_start = TRUE],
                               !.already_used_question_numbers = <<>>,
                               !.question_list_to_load = "blitz_questions_list",
                               !.blitz_quiz_start_text = TRUE]
             ELSE [keep EXCEPT !.question_list_to_load = "blitz_questions_list"]
        ELSE IF mode # "Score" /\ n = MEMBERS_TO_FINISH_BOUND
        THEN [keep EXCEPT !.go = FALSE, !.question_list_to_load = question_list_to_load]
        ELSE keep

\* quiz_mainloop, while head with the stop event set: the loop ends
LoopExit ==
    /\ Up
    /\ pc = "loop"
    /\ stop_event
    /\ pc' = "exited"
    /\ reply' = <<>>
    /\ UNCHANGED <<proc, bot_config, diskVars, answer_block, stop_event, temp_info,
                   dump_data, quizVars, handlerVars, listener_started, rounds_opened, at_block>>
    /\ UNCHANGED lifeVars

\* quiz_mainloop lines 376-383: RoundInit and the reload of the question file
IterationInit ==
    /\ Up
    /\ pc = "loop"
    /\ ~stop_event
    /\ LET r == __quiz_iteration_init(bot_config.quiz_mode, temp_info, round_counter,
                                      already_used_question_numbers)
       IN  /\ temp_info' = r.temp_info
           /\ round_counter' = r.round_counter
           /\ already_used_question_numbers' = r.already_used_question_numbers
           /\ question_list_to_load' = r.question_list_to_load
           /\ announced' = IF r.blitz_quiz_start_text THEN announced + 1 ELSE announced
           /\ IF r.go
              THEN /\ IF r.question_list_to_load \in malformed
                      THEN /\ questions_list' = questions_list
                           /\ pc' = "json_wait"
                      ELSE /\ questions_list' = load_json(pool_size[r.question_list_to_load])
                           /\ pc' = "select"
                   /\ winner_text' = winner_text
              ELSE /\ questions_list' = questions_list
                   /\ winner_text' = <<__finish_quiz(bot_config.quiz_mode, temp_info)>>
                   /\ pc' = "finished"
    /\ reply' = <<>>
    /\ UNCHANGED <<proc, bot_config, diskVars, answer_block, stop_event, dump_data,
                   crash_state, current_question_number, time_wait,
                   members_queued_to_kick, handlerVars, listener_started, rounds_opened, at_block>>
    /\ UNCHANGED <<__seed, starts, save_seed>>

\* DataManager.load_json lines 97-116, called at quiz_mainloop line 382: after
\* a JSONDecodeError the call waits until the file's modification time has
\* changed and reads the file again. Here the operator has saved the file
\* with its syntax repaired.
JsonWaitModified ==
    /\ Up
    /\ pc = "json_wait"
    /\ malformed' = malformed \ {question_list_to_load}
    /\ questions_list' = load_json(pool_size[question_list_to_load])
    /\ pc' = "select"
    /\ reply' = <<>>
    /\ UNCHANGED <<proc, bot_config, save_state, flags, pool_size, chat_members, chat_admins,
                   answer_block, stop_event, temp_info, dump_data, crash_state,
                   already_used_question_numbers, question_list_to_load,
                   current_question_number, round_counter, time_wait,
                   members_queued_to_kick, handlerVars, listener_started,
                   rounds_opened, at_block>>
    /\ UNCHANGED lifeVars

\* ---------------------------------------------- quiz thread: QuestionSelect
\* random.Random(seed): the generator's state after k draws, and the k-th
\* randint(0, n - 1) of a generator seeded with seed
RECURSIVE RandState(_, _)
RandState(seed, k) == IF k = 0 THEN seed % 16 ELSE (5 * RandState(seed, k - 1) + 3) % 16

randint(seed, k, n) == RandState(seed, k) % n

\* the draws of the selection loop: it stops at the first number not yet used
FirstFree(seed, used, n) ==
    LET free == {k \in 1..16 : randint(seed, k, n) \notin Range(used)}
    IN  IF free = {} THEN 0 ELSE CHOOSE k \in free : \A j \in free : k <= j

\* QuizManager.__question_select, the selection itself (lines 213-225): the
\* numbers current_question_number may hold when the choice is over
__question_select(random, seed, used, n, current, stopped) ==
    IF random
    THEN LET k == FirstFree(seed, used, n)
         IN  IF stopped
             THEN {current} \cup {randint(seed, j, n) : j \in 1..(IF k = 0 THEN 16 ELSE k - 1)}
             ELSE IF k = 0 THEN {} ELSE {randint(seed, k, n)}
    ELSE {IF current < n - 1 THEN current + 1 ELSE current}

\* the replay that keeps the resume flag
__question_replay_KeepFlag(crash, current, used) ==
    [crash_state |-> crash, current_question_number |-> current,
     already_used_question_numbers |-> used]

\* __question_select lines 207-209: in a resumed session the question of the
\* save state is kept and the resume flag is cleared
__question_replay(crash, current, used) ==
    [crash_state |-> FALSE, current_question_number |-> current,
     already_used_question_numbers |-> used]

\* the end of the questions that suspends the driver in every mode
__question_queue_finish_Wait(mode) == "pool_wait"

\* __question_select lines 229-243, with every question used: the modes other
\* than Score wait for an edit of the question file; Score mode announces the
\* winner and sets the stop event, which ends the loop of quiz_mainloop
__question_queue_finish(mode) == IF mode # "Score" THEN "pool_wait" ELSE "loop"

QuestionSelect ==
    /\ Up
    /\ pc = "select"
    /\ IF crash_state
       THEN LET r == __question_replay(crash_state, current_question_number,
                                      already_used_question_numbers)
            IN  /\ crash_state' = r.crash_state
                /\ current_question_number' = r.current_question_number
                /\ already_used_question_numbers' = r.already_used_question_numbers
                /\ pc' = "publish"
                /\ stop_event' = stop_event
       ELSE /\ crash_state' = crash_state
            /\ IF Len(already_used_question_numbers) # Len(questions_list)
               THEN /\ current_question_number' \in
                          __question_select(bot_config.random_selection_for_quiz_questions,
                                            __seed, already_used_question_numbers,
                                            Len(questions_list), current_question_number,
                                            stop_event)
                    /\ already_used_question_numbers' =
                          Append(already_used_question_numbers, current_question_number')
                    /\ pc' = "publish"
                    /\ stop_event' = stop_event
               ELSE /\ UNCHANGED <<current_question_number, already_used_question_numbers>>
                    /\ pc' = __question_queue_finish(bot_config.quiz_mode)
                    /\ stop_event' = (stop_event \/ pc' = "loop")
    /\ winner_text' = IF pc' = "loop"
                      THEN <<__finish_quiz(bot_config.quiz_mode, temp_info)>>
                      ELSE winner_text
    /\ reply' = <<>>
    /\ UNCHANGED <<proc, bot_config, diskVars, answer_block, temp_info, dump_data,
                   question_list_to_load, round_counter, time_wait, questions_list,
                   members_queued_to_kick, handlerVars, listener_started, rounds_opened, at_block>>
    /\ UNCHANGED <<__seed, starts, save_seed, announced>>

\* __question_select lines 236-246: the wait for an edit of the question file
\* ends when the stop event is set
PoolWaitStopped ==
    /\ Up
    /\ pc = "pool_wait"
    /\ stop_event
    /\ pc' = "loop"
    /\ reply' = <<>>
    /\ UNCHANGED <<proc, bot_config, diskVars, answer_block, stop_event, temp_info,
                   dump_data, quizVars, handlerVars, listener_started, rounds_opened, at_block>>
    /\ UNCHANGED lifeVars

\* ... or when the operator has added a question to the file
PoolWaitModified ==
    /\ Up
    /\ pc = "pool_wait"
    /\ ~stop_event
    /\ pool_size.questions_list + pool_size.blitz_questions_list
           < MainPoolSize + BlitzPoolSize + MaxEdits
    /\ pool_size' = [pool_size EXCEPT ![question_list_to_load] = @ + 1]
    /\ pc' = "loop"
    /\ reply' = <<>>
    /\ UNCHANGED <<proc, bot_config, save_state, flags, malformed, chat_members, chat_admins, answer_block,
                   stop_event, temp_info, dump_data, quizVars, handlerVars,
                   listener_started, rounds_opened, at_block>>
    /\ UNCHANGED lifeVars

\* a list index as Python takes it: -n .. n-1
ValidIndex(i, n) == -n <= i /\ i < n

\* the question at a Python index
QuestionAt(list, i) == IF i < 0 THEN list[Len(list) + i + 1] ELSE list[i + 1]

\* ------------------------------------------------- quiz thread: RoundOpen
\* quiz_mainloop lines 386-390: publish, open the window, enter the countdown.
\* An index outside the list raises in __quiz_question_publish: the thread ends
\* in ErrorNotifier.notify, which leaves a flag.
Publish ==
    /\ Up
    /\ pc = "publish"
    /\ rounds_opened < MaxRounds
    /\ IF ValidIndex(current_question_number, Len(questions_list))
       THEN /\ answer_block' = FALSE
            /\ rounds_opened' = rounds_opened + 1
            /\ flags' = flags
            /\ pc' = IF /\ bot_config.quiz_mode = "Blitz"
                        /\ Len(temp_info.members_vk_page_ids) = MEMBER_QUANT_TO_KEEP_BLITZ
                     THEN "blitz_wait" ELSE "timer"
       ELSE /\ pc' = "crashed"
            /\ flags' = create_exception_flag(flags)
            /\ UNCHANGED <<answer_block, rounds_opened>>
    /\ reply' = <<>>
    /\ UNCHANGED <<proc, bot_config, save_state, pool_size, malformed, chat_members, chat_admins, stop_event,
                   temp_info, dump_data, quizVars, handlerVars, listener_started,
                   at_block>>
    /\ UNCHANGED lifeVars

\* --------------------------------------------- quiz thread: RoundCountdown
\* __quiz_question_countdown lines 278-285: blitz waits for both answers
BlitzWait ==
    /\ Up
    /\ pc = "blitz_wait"
    /\ IF stop_event THEN pc' = "timer"
       ELSE /\ Len(temp_info.members_answered_on_quiz) = MEMBER_QUANT_TO_KEEP_BLITZ
            /\ pc' = "close"
    /\ reply' = <<>>
    /\ UNCHANGED <<proc, bot_config, diskVars, answer_block, stop_event, temp_info,
                   dump_data, quizVars, handlerVars, listener_started, rounds_opened, at_block>>
    /\ UNCHANGED lifeVars

\* the countdown that ends as if the time were over when it sees the stop event
__quiz_question_countdown_StopCloses(wait, stopped) ==
    IF wait > RoundLimit \/ stopped THEN "close" ELSE "timer"

\* __quiz_question_countdown lines 287-295, one pass of the loop: True sends
\* quiz_mainloop on to the close of the round, False makes it return
\* (lines 390-392), and otherwise the loop sleeps and counts on
__quiz_question_countdown(wait, stopped) ==
    IF wait > RoundLimit THEN "close"
    ELSE IF stopped THEN "aborted"
    ELSE "timer"

\* __quiz_question_countdown lines 287-295 and quiz_mainloop lines 390-392
TimerTick ==
    /\ Up
    /\ pc = "timer"
    /\ pc' = __quiz_question_countdown(time_wait, stop_event)
    /\ time_wait' = IF pc' = "timer" THEN time_wait + TIME_DELAY_5 ELSE time_wait
    /\ reply' = <<>>
    /\ UNCHANGED <<proc, bot_config, diskVars, answer_block, stop_event, temp_info,
                   dump_data, crash_state, already_used_question_numbers,
                   question_list_to_load, current_question_number, round_counter,
                   questions_list, members_queued_to_kick, handlerVars,
                   listener_started, rounds_opened, at_block>>
    /\ UNCHANGED lifeVars

\* ------------------------------------------------ quiz thread: RoundClose
\* quiz_mainloop line 394
CloseBlock ==
    /\ Up
    /\ pc = "close"
    /\ answer_block' = TRUE
    /\ pc' = "kick"
    /\ at_block' = <<[members |-> Range(temp_info.members_vk_page_ids),
                      right |-> Range(temp_info.members_answered_on_quiz_right)]>>
    /\ reply' = <<>>
    /\ UNCHANGED <<proc, bot_config, diskVars, stop_event, temp_info, dump_data,
                   quizVars, handlerVars, listener_started, rounds_opened>>
    /\ UNCHANGED lifeVars

\* UserManager.kick_user: the member leaves the roster; a member that is not in
\* it raises in list.remove, which ErrorNotifier.notify swallows
kick_user(ti, member_id) ==
    IF member_id \in Range(ti.members_vk_page_ids)
    THEN [ti EXCEPT !.members_vk_page_ids = ListRemove(@, member_id)]
    ELSE ti

RECURSIVE KickEach(_, _)
KickEach(ti, queue) ==
    IF queue = {} THEN ti
    ELSE LET m == CHOOSE x \in queue : TRUE
         IN  KickEach(kick_user(ti, m), queue \ {m})

\* __end_of_time_handler line 411
MembersQueuedToKick(ti) ==
    Range(ti.members_vk_page_ids) \ Range(ti.members_answered_on_quiz_right)

\* __end_of_time_handler lines 410-425: who did not answer right is kicked
EndOfTimeKick ==
    /\ Up
    /\ pc = "kick"
    /\ IF bot_config.quiz_mode # "Score"
       THEN /\ members_queued_to_kick' = MembersQueuedToKick(temp_info)
            /\ temp_info' = KickEach(temp_info, members_queued_to_kick')
            /\ chat_members' = chat_members \ members_queued_to_kick'
            /\ chat_admins' = chat_admins \ members_queued_to_kick'
       ELSE UNCHANGED <<members_queued_to_kick, temp_info, chat_members, chat_admins>>
    /\ pc' = "reset"
    /\ reply' = <<>>
    /\ UNCHANGED <<proc, bot_config, save_state, flags, pool_size, malformed, answer_block,
                   stop_event, dump_data, crash_state, already_used_question_numbers,
                   question_list_to_load, current_question_number, round_counter,
                   time_wait, questions_list, handlerVars, listener_started,
                   rounds_opened, at_block>>
    /\ UNCHANGED lifeVars

\* the same with messages.removeChatUser failing for the pages of failed:
\* kick_user has rewritten the roster (user_manager.py lines 157-160) before it
\* makes the call (162-166), and ErrorNotifier.notify leaves a flag and returns
EndOfTimeKickFault(failed) ==
    /\ Up
    /\ pc = "kick"
    /\ bot_config.quiz_mode # "Score"
    /\ failed # {}
    /\ failed \subseteq MembersQueuedToKick(temp_info)
    /\ members_queued_to_kick' = MembersQueuedToKick(temp_info)
    /\ temp_info' = KickEach(temp_info, members_queued_to_kick')
    /\ chat_members' = chat_members \ (members_queued_to_kick' \ failed)
    /\ chat_admins' = chat_admins \ (members_queued_to_kick' \ failed)
    /\ flags' = create_exception_flag(flags)
    /\ pc' = "reset"
    /\ reply' = <<>>
    /\ UNCHANGED <<proc, bot_config, save_state, pool_size, malformed, answer_block,
                   stop_event, dump_data, crash_state, already_used_question_numbers,
                   question_list_to_load, current_question_number, round_counter,
                   time_wait, questions_list, handlerVars, listener_started,
                   rounds_opened, at_block>>
    /\ UNCHANGED lifeVars

\* __end_of_time_handler lines 437-439
EndOfTimeReset ==
    /\ Up
    /\ pc = "reset"
    /\ round_counter' = round_counter + 1
    /\ time_wait' = 0
    /\ temp_info' = [temp_info EXCEPT !.members_answered_on_quiz = <<>>]
    /\ pc' = "clear_right"
    /\ reply' = <<>>
    /\ UNCHANGED <<proc, bot_config, diskVars, answer_block, stop_event, dump_data,
                   crash_state, already_used_question_numbers, question_list_to_load,
                   current_question_number, questions_list, members_queued_to_kick,
                   handlerVars, listener_started, rounds_opened, at_block>>
    /\ UNCHANGED lifeVars

\* __end_of_time_handler line 441, and back to the while head
EndOfTimeClearRight ==
    /\ Up
    /\ pc = "clear_right"
    /\ temp_info' = [temp_info EXCEPT !.members_answered_on_quiz_right = <<>>]
    /\ members_queued_to_kick' = {}
    /\ at_block' = <<>>
    /\ pc' = "loop"
    /\ reply' = <<>>
    /\ UNCHANGED <<proc, bot_config, diskVars, answer_block, stop_event, dump_data,
                   crash_state, already_used_question_numbers, question_list_to_load,
                   current_question_number, round_counter, time_wait, questions_list,
                   handlerVars, listener_started, rounds_opened>>
    /\ UNCHANGED lifeVars

\* the first checks with the closed window looked at before the admin
FirstCheck_BlockFirst(ti, blocked, user, payload) ==
    IF payload # "score" /\ blocked THEN "answer_blocked_text"
    ELSE IF user \in ti.admin_vk_pages_ids THEN "admin_cannot_use_text"
    ELSE IF payload = "score" THEN "score_template_text"
    ELSE "pass"

\* the first checks with the score probe looked at after the closed window
FirstCheck_ProbeLast(ti, blocked, user, payload) ==
    IF user \in ti.admin_vk_pages_ids THEN "admin_cannot_use_text"
    ELSE IF blocked THEN "answer_blocked_text"
    ELSE IF payload = "score" THEN "score_template_text"
    ELSE "pass"

\* the score update with a wrong answer charged only to known participants
ScoreUpdate_NoFirstPenalty(scores, user, payload, question_score) ==
    IF payload = "right"
    THEN DictSet(scores, user, DictGet(scores, user, 0) + question_score)
    ELSE IF user \notin DOMAIN scores
         THEN DictSet(scores, user, 0)
         ELSE DictSet(scores, user, DictGet(scores, user, 0) - question_score)

\* ------------------------------------- Handler.members_quiz_answers_handler
\* lines 301-326: the checks that read no list of the round
FirstCheck(ti, blocked, user, payload) ==
    IF user \in ti.admin_vk_pages_ids THEN "admin_cannot_use_text"
    ELSE IF payload = "score" THEN "score_template_text"
    ELSE IF blocked THEN "answer_blocked_text"
    ELSE "pass"

\* line 327
AlreadyAnswered(ti, user) == user \in Range(ti.members_answered_on_quiz)

\* lines 332-350: the score after an answer to a question worth question_score
ScoreUpdate(scores, user, payload, question_score) ==
    IF payload = "right"
    THEN IF user \notin DOMAIN scores
         THEN DictSet(scores, user, question_score)
         ELSE DictSet(scores, user, DictGet(scores, user, 0) + question_score)
    ELSE IF user \notin DOMAIN scores
         THEN DictSet(scores, user, -question_score)
         ELSE DictSet(scores, user, DictGet(scores, user, 0) - question_score)

\* QuizManager.get_current_question: the question of the running round
get_current_question == QuestionAt(questions_list, current_question_number)

\* lines 330-357: what an accepted answer records before it joins the answered list
RecordAnswer(mode, ti, user, payload, question_score) ==
    IF mode = "Score"
    THEN [ti EXCEPT !.members_scores = ScoreUpdate(@, user, payload, question_score),
                    !.members_scores_keys = IF user \in Range(@) THEN @ ELSE Append(@, user)]
    ELSE IF payload = "right"
    THEN [ti EXCEPT !.members_answered_on_quiz_right = Append(@, user)]
    ELSE ti

\* line 361
AppendAnswered(ti, user) == [ti EXCEPT !.members_answered_on_quiz = Append(@, user)]

\* messages.sendMessageEventAnswer: the snackbar text and the score it shows
EventAnswer(text, shown) == [text |-> text, score |-> shown]

\* Messenger.template: the text with its SCORE field filled in
template(text, SCORE) == EventAnswer(text, SCORE)

\* lines 297-326: a handler thread takes Handler._locker; an admin, a score
\* probe and a closed window are answered at once
HStart(user, payload) ==
    /\ Up
    /\ listener_started
    /\ locker = "free"
    /\ events < MaxEvents
    /\ events' = events + 1
    /\ LET first == FirstCheck(temp_info, answer_block, user, payload)
       IN  IF first = "pass"
           THEN /\ h' = [pc |-> "dedup", user |-> user, payload |-> payload]
                /\ locker' = "answer"
                /\ reply' = <<>>
                /\ replies' = replies
           ELSE /\ h' = HandlerIdle
                /\ locker' = "free"
                /\ reply' = <<IF first = "score_template_text"
                              THEN template(first,
                                            DictGet(temp_info.members_scores, user, 0))
                              ELSE EventAnswer(first, 0)>>
                /\ replies' = replies + 1
    /\ UNCHANGED <<proc, bot_config, diskVars, answer_block, stop_event, temp_info, pc,
                   dump_data, quizVars, listener_started, rounds_opened, at_block>>
    /\ UNCHANGED lifeVars

\* lines 327-328
HDedup ==
    /\ Up
    /\ h.pc = "dedup"
    /\ IF AlreadyAnswered(temp_info, h.user)
       THEN /\ h' = HandlerIdle
            /\ locker' = "free"
            /\ reply' = <<EventAnswer("already_answered_text", 0)>>
            /\ replies' = replies + 1
       ELSE /\ h' = [h EXCEPT !.pc = "record"]
            /\ locker' = locker
            /\ reply' = <<>>
            /\ replies' = replies
    /\ UNCHANGED <<proc, bot_config, diskVars, answer_block, stop_event, temp_info, pc,
                   dump_data, quizVars, events, listener_started, rounds_opened, at_block>>
    /\ UNCHANGED lifeVars

\* lines 330-359
HRecord ==
    /\ Up
    /\ h.pc = "record"
    /\ temp_info' = RecordAnswer(bot_config.quiz_mode, temp_info, h.user, h.payload,
                                 IF bot_config.quiz_mode = "Score"
                                 THEN get_current_question ELSE 0)
    /\ h' = [h EXCEPT !.pc = "append"]
    /\ reply' = <<>>
    /\ UNCHANGED <<proc, bot_config, diskVars, answer_block, stop_event, pc, dump_data,
                   quizVars, locker, events, replies, listener_started, rounds_opened, at_block>>
    /\ UNCHANGED lifeVars

\* the accepted path without the final raise: the answer is stored, no reply is sent
HAppend_NoReply ==
    /\ Up
    /\ h.pc = "append"
    /\ temp_info' = [temp_info EXCEPT !.members_answered_on_quiz = Append(@, h.user)]
    /\ h' = HandlerIdle
    /\ locker' = "free"
    /\ reply' = <<>>
    /\ replies' = replies
    /\ UNCHANGED <<proc, bot_config, diskVars, answer_block, stop_event, pc, dump_data,
                   quizVars, events, listener_started, rounds_opened, at_block>>
    /\ UNCHANGED lifeVars

\* lines 361-373
HAppend ==
    /\ Up
    /\ h.pc = "append"
    /\ temp_info' = AppendAnswered(temp_info, h.user)
    /\ h' = HandlerIdle
    /\ locker' = "free"
    /\ reply' = <<EventAnswer("answer_got_text", 0)>>
    /\ replies' = replies + 1
    /\ UNCHANGED <<proc, bot_config, diskVars, answer_block, stop_event, pc, dump_data,
                   quizVars, events, listener_started, rounds_opened, at_block>>
    /\ UNCHANGED lifeVars

\* the fault that leaves Handler._locker with the handler that raised
HFault_KeepLock ==
    /\ Up
    /\ h.pc \in {"dedup", "record", "append"}
    /\ h' = HandlerIdle
    /\ flags' = create_exception_flag(flags)
    /\ reply' = <<>>
    /\ UNCHANGED <<proc, bot_config, save_state, pool_size, malformed, chat_members, chat_admins,
                   answer_block, stop_event, temp_info, pc, dump_data, quizVars,
                   locker, events, replies, listener_started, rounds_opened, at_block>>
    /\ UNCHANGED lifeVars

\* members_quiz_answers_handler raises something that is no HandlerException
\* (a key missing from the event, a call of the VK API that fails): the `with`
\* of line 297 gives Handler._locker back, and ErrorNotifier.notify
\* (utils.py lines 163-183) leaves a flag, reports and returns None
HFault ==
    /\ Up
    /\ h.pc \in {"dedup", "record", "append"}
    /\ h' = HandlerIdle
    /\ locker' = "free"
    /\ flags' = create_exception_flag(flags)
    /\ reply' = <<>>
    /\ UNCHANGED <<proc, bot_config, save_state, pool_size, malformed, chat_members, chat_admins,
                   answer_block, stop_event, temp_info, pc, dump_data, quizVars,
                   events, replies, listener_started, rounds_opened, at_block>>
    /\ UNCHANGED lifeVars

\* ------------------------------------------------------- BotCore.finalize
\* lines 185-187: set the stop event, then join the quiz thread
FinalizeStop ==
    /\ proc = "running"
    /\ proc' = "finalizing"
    /\ stop_event' = TRUE
    /\ reply' = <<>>
    /\ UNCHANGED <<bot_config, diskVars, answer_block, temp_info, pc, dump_data,
                   quizVars, handlerVars, listener_started, rounds_opened, at_block>>
    /\ UNCHANGED lifeVars

\* QuizManager._save_state_create: the list pickled into dump/save_state.bin
_save_state_create ==
    Checkpoint(temp_info, question_list_to_load, already_used_question_numbers,
               current_question_number, round_counter, time_wait)

\* line 189: the save state is written once the quiz thread has ended
FinalizeSave ==
    /\ proc = "finalizing"
    /\ pc \notin Alive
    /\ save_state' = <<_save_state_create>>
    /\ proc' = "terminated"
    /\ reply' = <<>>
    /\ UNCHANGED <<bot_config, flags, pool_size, malformed, chat_members, chat_admins, answer_block, stop_event,
                   temp_info, pc, dump_data, quizVars, handlerVars, listener_started,
                   rounds_opened, at_block>>
    /\ save_seed' = __seed
    /\ UNCHANGED <<__seed, starts, announced, winner_text>>

\* pickle_dump raises after k objects: the file is left as it is then, and
\* ErrorNotifier.notify leaves a flag
FinalizeSaveFault(k) ==
    /\ proc = "finalizing"
    /\ pc \notin Alive
    /\ save_state' = <<TornDump(_save_state_create, k)>>
    /\ flags' = create_exception_flag(flags)
    /\ proc' = "terminated"
    /\ reply' = <<>>
    /\ save_seed' = __seed
    /\ UNCHANGED <<bot_config, pool_size, malformed, chat_members, chat_admins, answer_block, stop_event,
                   temp_info, pc, dump_data, quizVars, handlerVars, listener_started,
                   rounds_opened, at_block, __seed, starts, announced, winner_text>>

\* ------------------------------------------------------------ the process
\* console_mainloop returns on /exit and main.py ends the process once the
\* handler threads have ended: the daemon threads, the quiz thread among them,
\* end with it
ConsoleExit ==
    /\ proc = "running"
    /\ h = HandlerIdle
    /\ proc' = "terminated"
    /\ MemoryLost
    /\ UNCHANGED <<bot_config, diskVars, rounds_opened, starts, save_seed, announced, winner_text>>

\* main.py is started again
Restart ==
    /\ proc \in {"terminated", "failed"}
    /\ starts < MaxStarts
    /\ starts' = starts + 1
    /\ proc' = "boot"
    /\ MemoryLost
    /\ UNCHANGED <<bot_config, diskVars, rounds_opened, save_seed, announced, winner_text>>

\* between two runs of the process the clock passes the second of the flags
\* left by the last one
SecondPasses ==
    /\ proc \in {"terminated", "failed"}
    /\ "now" \in flags
    /\ flags' = {"past"}
    /\ reply' = <<>>
    /\ UNCHANGED <<proc, bot_config, save_state, pool_size, malformed, chat_members, chat_admins, answer_block,
                   stop_event, temp_info, pc, dump_data, quizVars, handlerVars,
                   listener_started, rounds_opened, at_block, lifeVars>>

\* ------------------------------------------------------------------- Next
Next ==
    \/ QuizManagerInit
    \/ \E u \in Users : GetChatCommand(u)
    \/ \E u \in Users : StartCommand(u)
    \/ \E u \in Users : StopCommand(u)
    \/ StopJoin
    \/ LoopExit
    \/ IterationInit
    \/ QuestionSelect
    \/ PoolWaitStopped
    \/ PoolWaitModified
    \/ Publish
    \/ BlitzWait
    \/ TimerTick
    \/ CloseBlock
    \/ EndOfTimeKick
    \/ EndOfTimeReset
    \/ EndOfTimeClearRight
    \/ \E u \in Users, p \in Payloads : HStart(u, p)
    \/ HDedup
    \/ HRecord
    \/ HAppend
    \/ FinalizeStop
    \/ FinalizeSave
    \/ ConsoleExit

Spec == Init /\ [][Next]_vars

\* One start after the other, and the faults of the dump directory
NextLife ==
    \/ Next
    \/ \E k \in TornLengths : FinalizeSaveFault(k)
    \/ Restart
    \/ SecondPasses

SpecLife == LifeInit /\ [][NextLife]_vars

\* Sessions started on a question file that may be malformed, with the
\* operator's repair of it. The quiz thread is scheduled fairly: a step of
\* it that stays possible is taken. What the operator and the chat do
\* (PoolWaitModified, JsonWaitModified, commands, answers) is under no
\* such condition.
StopInit ==
    /\ StartUpInit
    /\ CleanStart
    /\ bot_config.seed = 0
    /\ ~bot_config.random_selection_for_quiz_questions

QuizThread ==
    \/ LoopExit
    \/ IterationInit
    \/ QuestionSelect
    \/ PoolWaitStopped
    \/ Publish
    \/ BlitzWait
    \/ TimerTick
    \/ CloseBlock
    \/ EndOfTimeKick
    \/ EndOfTimeReset
    \/ EndOfTimeClearRight

NextStop ==
    \/ Next
    \/ JsonWaitModified

SpecStop == StopInit /\ [][NextStop]_vars /\ WF_vars(QuizThread)

\* Blitz sessions in a chat that a page joins after /get_chat has collected
\* the roster: the page is in the chat, gets the question's keyboard and can
\* send answer events, and it is on no list of the bot.
Guest == MaxUsers + 1

BlitzInit ==
    /\ StartUpInit
    /\ CleanStart
    /\ malformed = {}
    /\ bot_config.quiz_mode = "Blitz"
    /\ bot_config.seed = 0
    /\ ~bot_config.random_selection_for_quiz_questions

ChatJoin ==
    /\ Up
    /\ listener_started
    /\ Guest \notin chat_members
    /\ chat_members' = chat_members \cup {Guest}
    /\ chat_admins' = chat_admins
    /\ reply' = <<>>
    /\ UNCHANGED <<proc, bot_config, save_state, flags, pool_size, malformed,
                   answer_block, stop_event, temp_info, pc, dump_data, quizVars,
                   handlerVars, listener_started, rounds_opened, at_block>>
    /\ UNCHANGED lifeVars

GuestAnswer(payload) ==
    /\ Guest \in chat_members
    /\ HStart(Guest, payload)

NextBlitz ==
    \/ Next
    \/ ChatJoin
    \/ \E p \in Payloads : GuestAnswer(p)

SpecBlitz == BlitzInit /\ [][NextBlitz]_vars

\* Normal and Blitz sessions in which the remote removal of a kicked page may fail
KickInit ==
    /\ StartUpInit
    /\ CleanStart
    /\ malformed = {}
    /\ bot_config.quiz_mode \in {"Normal", "Blitz"}
    /\ bot_config.seed = 0
    /\ ~bot_config.random_selection_for_quiz_questions

NextKick ==
    \/ Next
    \/ \E failed \in SUBSET Users : EndOfTimeKickFault(failed)

SpecKick == KickInit /\ [][NextKick]_vars

\* Normal and Blitz sessions in a chat where a member is made an admin
ChatPromote(u) ==
    /\ Up
    /\ u \in chat_members
    /\ chat_members' = chat_members \ {u}
    /\ chat_admins' = chat_admins \cup {u}
    /\ reply' = <<>>
    /\ UNCHANGED <<proc, bot_config, save_state, flags, pool_size, malformed,
                   answer_block, stop_event, temp_info, pc, dump_data, quizVars,
                   handlerVars, listener_started, rounds_opened, at_block>>
    /\ UNCHANGED lifeVars

NextAdmin ==
    \/ Next
    \/ \E u \in Users : ChatPromote(u)

SpecAdmin == KickInit /\ [][NextAdmin]_vars

\* Normal and Blitz sessions in which an answer handler may raise
NextFault ==
    \/ Next
    \/ HFault

SpecFault == KickInit /\ [][NextFault]_vars

\* The start-up alone, over every configuration and dump directory
NextStartUp == QuizManagerInit

SpecStartUp == StartUpInit /\ [][NextStartUp]_vars

\* =================================================================== claims
\* the quiz mode, the answer lists and the scores, for short
Mode == bot_config.quiz_mode
Answered == temp_info.members_answered_on_quiz
Right == temp_info.members_answered_on_quiz_right
Scores == temp_info.members_scores

\* C1: a submit is atomic with the round's close: an accepted answer is never
\* recorded in the answer lists or the scores once the answers are blocked.
C1_SubmitAtomicWithClose == [][(HRecord \/ HAppend) => ~answer_block]_vars

\* C2: whatever the number of answer events of one participant in a round, the
\* answered list and the right-answer list hold the participant at most once.
C2_AtMostOncePerRound ==
    \A u \in Users : Count(Answered, u) <= 1 /\ Count(Right, u) <= 1

\* C3: outside Score mode the participants removed at a round's close are the
\* roster minus the right-answer list, both as they were when the answers were
\* blocked.
C3_KickSetAtBlock ==
    (pc \in {"reset", "clear_right"} /\ Mode # "Score" /\ at_block # <<>>)
        => members_queued_to_kick = at_block[1].members \ at_block[1].right

\* C4: every answer event gets exactly one event-answer reply: every step sends
\* at most one, and the replies sent are the events taken minus the one in
\* flight.
C4_OneReplyPerEvent ==
    /\ Len(reply) <= 1
    /\ replies = events - (IF h.pc = "none" THEN 0 ELSE 1)
    /\ h.pc # "none" => reply = <<>>

C4_Witness ==
    /\ events = 2
    /\ replies = 2
    /\ reply = <<EventAnswer("answer_got_text", 0)>>

\* C5: a non-probe submit is rejected by the first rule that applies, in the
\* order admin, closed window, already answered; it is accepted only if none
\* applies.
C5_FirstMatchWins ==
    [][/\ \A u \in Users, p \in {"right", "wrong"} :
            HStart(u, p) =>
                IF u \in temp_info.admin_vk_pages_ids
                THEN reply' = <<EventAnswer("admin_cannot_use_text", 0)>>
                ELSE IF answer_block
                THEN reply' = <<EventAnswer("answer_blocked_text", 0)>>
                ELSE reply' = <<>> /\ h'.pc = "dedup"
       /\ HDedup =>
            IF h.user \in Range(Answered)
            THEN reply' = <<EventAnswer("already_answered_text", 0)>>
            ELSE reply' = <<>> /\ h'.pc = "record"
       /\ HAppend => reply' = <<EventAnswer("answer_got_text", 0)>>
       /\ (reply' # <<>> /\ reply'[1].text = "answer_got_text") => HAppend]_vars

C5_Witness ==
    /\ reply = <<EventAnswer("admin_cannot_use_text", 0)>>
    /\ answer_block
    /\ rounds_opened > 0

\* C6: in Score mode an accepted right answer adds the score of the current
\* question to the participant's score, an accepted wrong answer subtracts it
\* (a participant without a score starts at 0), and either way the
\* participant joins the round's answered list.
C6_ScoreDelta ==
    [][/\ (HRecord /\ Mode = "Score") =>
            LET q == QuestionScore(current_question_number % Len(questions_list))
            IN  /\ temp_info'.members_scores[h.user] =
                       DictGet(Scores, h.user, 0)
                         + (IF h.payload = "right" THEN q ELSE -q)
                /\ \A v \in DOMAIN Scores \ {h.user} :
                       temp_info'.members_scores[v] = Scores[v]
                /\ DOMAIN temp_info'.members_scores = DOMAIN Scores \cup {h.user}
                /\ h'.pc = "append"
       /\ HAppend => temp_info'.members_answered_on_quiz = Append(Answered, h.user)]_vars

C6_Witness ==
    /\ Mode = "Score"
    /\ \E u, v \in DOMAIN Scores : Scores[u] = 5 /\ Scores[v] = -5
    /\ Len(Answered) = 2

\* C7: a score probe changes nothing of the session, and a participant who is
\* no admin is shown their current score, with the answers blocked or not and
\* whether or not they have answered in the round.
C7_ProbeReadsOnly ==
    [][\A u \in Users :
          HStart(u, "score") =>
              /\ UNCHANGED <<temp_info, answer_block, stop_event, pc, quizVars,
                             diskVars, locker>>
              /\ h' = HandlerIdle
              /\ u \notin temp_info.admin_vk_pages_ids =>
                    reply' = <<[text |-> "score_template_text",
                                score |-> IF u \in DOMAIN Scores THEN Scores[u] ELSE 0]>>]_vars

C7_Witness ==
    /\ reply = <<[text |-> "score_template_text", score |-> 5]>>
    /\ answer_block
    /\ rounds_opened > 0

\* C8: the answers are blocked whenever no answer window is open, after a
\* cancelled countdown too.
C8_BlockedOutsideWindow ==
    pc \notin {"blitz_wait", "timer", "close"} => answer_block

\* C9: the start-up loads the save state if and only if it exists, a flag is
\* present or the load is forced, and the ignore option is off; otherwise the
\* session is fresh: round 1, no used question, current question -1, time 0.
C9_LoadIffAllowed ==
    [][QuizManagerInit =>
          IF /\ save_state # <<>>
             /\ flags # {} \/ bot_config.force_load_save_state
             /\ ~bot_config.ignore_save_state
          THEN /\ dump_data' = save_state
               /\ round_counter' = save_state[1].round_counter
               /\ already_used_question_numbers'
                      = save_state[1].already_used_question_numbers
               /\ current_question_number' = save_state[1].current_question_number
               /\ time_wait' = save_state[1].time_wait
               /\ temp_info' = save_state[1].temp_info
          ELSE /\ dump_data' = <<>>
               /\ round_counter' = 1
               /\ already_used_question_numbers' = <<>>
               /\ current_question_number' = -1
               /\ time_wait' = 0]_vars

C9_Witness ==
    /\ proc = "running"
    /\ dump_data = <<OldCheckpoint>>
    /\ time_wait = TIME_DELAY_5
    /\ bot_config.force_load_save_state
    /\ ~bot_config.ignore_save_state

\* C10: every round's close leaves a save state on disk that holds the state
\* after the close.
C10_CheckpointAtClose ==
    [][EndOfTimeClearRight =>
          save_state' = <<Checkpoint(temp_info', question_list_to_load',
                                     already_used_question_numbers',
                                     current_question_number', round_counter',
                                     time_wait')>>]_vars

\* C11: a save state that is loaded is never torn: whatever happens while it
\* is written, the next load sees all six objects of one pickled list.
C11_NoTornLoad ==
    dump_data # <<>> => DOMAIN dump_data[1] = Range(CheckpointFields)

\* C12: the first QuestionSelect of a resumed session selects nothing: the
\* current question and the used numbers stay as loaded and the resume flag is
\* cleared; every QuestionSelect after it, the pool not being exhausted,
\* records one more number.
C12_ReplayOnce ==
    [][QuestionSelect =>
          IF crash_state
          THEN /\ ~crash_state'
               /\ UNCHANGED <<current_question_number, already_used_question_numbers>>
               /\ current_question_number = dump_data[1].current_question_number
               /\ already_used_question_numbers
                      = dump_data[1].already_used_question_numbers
               /\ pc' = "publish"
          ELSE /\ ~crash_state'
               /\ Len(already_used_question_numbers) # pool_size[question_list_to_load]
                     => Len(already_used_question_numbers')
                            = Len(already_used_question_numbers) + 1
               /\ (/\ dump_data # <<>>
                   /\ already_used_question_numbers
                          = dump_data[1].already_used_question_numbers
                   /\ question_list_to_load = dump_data[1].question_list_to_load
                   /\ pc' = "publish")
                     => current_question_number'
                            \notin Range(already_used_question_numbers)]_vars

C12_Witness ==
    /\ dump_data # <<>>
    /\ ~crash_state
    /\ pc = "publish"
    /\ Len(already_used_question_numbers)
           = Len(dump_data[1].already_used_question_numbers) + 1

\* C13: a resumed session goes on with the countdown of the question of its
\* save state: a question whose countdown had begun when the save state was
\* written is not published again.
C13_NoSecondPublish ==
    [][Publish =>
          ~(/\ dump_data # <<>>
            /\ dump_data[1].time_wait > 0
            /\ current_question_number = dump_data[1].current_question_number
            /\ already_used_question_numbers
                   = dump_data[1].already_used_question_numbers
            /\ answer_block' = FALSE)]_vars

\* C14: a session resumed from a save state has the seed of the session that
\* wrote the save state.
C14_SeedAcrossResume ==
    [][(/\ QuizManagerInit
        /\ proc' = "running"
        /\ dump_data' # <<>>
        /\ save_seed # None) => __seed' = save_seed]_vars

\* C15: the random selection is a function of the seed, the pool size and the
\* used numbers: it yields exactly one number, the same whatever else the
\* state of the session is, and that number is not a used one.
C15_RandomDeterministic ==
    [][(/\ QuestionSelect
        /\ ~crash_state
        /\ bot_config.random_selection_for_quiz_questions
        /\ Len(already_used_question_numbers) # Len(questions_list))
          => /\ current_question_number' \notin Range(already_used_question_numbers)
             /\ \A c \in -1..(Len(questions_list) - 1), stopped \in BOOLEAN :
                   __question_select(TRUE, __seed, already_used_question_numbers,
                                     Len(questions_list), c, stopped)
                       = {current_question_number'}]_vars

\* C16: a successful resume leaves no exception flag of an earlier run in the
\* dump directory.
C16_FlagsCleared ==
    [][(/\ QuizManagerInit
        /\ proc' = "running"
        /\ dump_data' # <<>>) => flags' = {}]_vars

\* C17: the process ends only from finalize: the step that ends it finds the
\* stop event set and the quiz thread ended, and leaves the save state of the
\* session on disk.
C17_ExitAfterCheckpoint ==
    [][(proc # "terminated" /\ proc' = "terminated")
          => /\ stop_event
             /\ pc \notin Alive
             /\ save_state' = <<_save_state_create>>]_vars

\* C18: while a round's answer window is open the current question number is
\* one of the used numbers, and the used numbers are never more than the
\* questions of the list in use.
C18_CurrentIsUsed ==
    /\ pc \in {"blitz_wait", "timer", "close"}
          => current_question_number \in Range(already_used_question_numbers)
    /\ question_list_to_load # "none"
          => Len(already_used_question_numbers) <= pool_size[question_list_to_load]

\* C19: QuestionSelect never records a number that is already used: the used
\* numbers hold no number twice.
C19_NoRepeat ==
    \A i, j \in 1..Len(already_used_question_numbers) :
        already_used_question_numbers[i] = already_used_question_numbers[j] => i = j

\* C20: in one session, resumed once or more or not at all, the switch to
\* the blitz questions is announced at most once.
C20_OneBlitzStart == announced <= 1

C23_EmptyRosterEnds ==
    [][(IterationInit /\ Mode # "Score" /\ temp_info.members_vk_page_ids = <<>>)
          => /\ pc' = "finished"
             /\ winner_text' = <<[text |-> "winner_do_not_found_text"]>>]_vars

C25_ScoreKeepsRoster ==
    [][Mode = "Score"
          => /\ EndOfTimeKick => UNCHANGED <<temp_info, chat_members, chat_admins, members_queued_to_kick>>
             /\ chat_members' = chat_members
             /\ \A roster \in SUBSET Users :
                    __quiz_iteration_init("Score",
                        [temp_info EXCEPT !.members_vk_page_ids = SetToSeq(roster)],
                        round_counter, already_used_question_numbers).go
             /\ IterationInit => pc' = "select"
             /\ pc' # "finished"
             /\ (winner_text' # winner_text /\ winner_text' # <<>>)
                   => /\ pc = "select"
                      /\ ~crash_state
                      /\ Len(already_used_question_numbers) = Len(questions_list)]_vars

C25_Witness ==
    /\ Mode = "Score"
    /\ pc = "exited"
    /\ winner_text # <<>>
    /\ rounds_opened > 0
    /\ Len(temp_info.members_vk_page_ids) = Cardinality(Users \ ChatAdmins)

C27_StopSkipsClose ==
    [][/\ (TimerTick /\ stop_event /\ time_wait <= RoundLimit)
          => /\ pc' = "aborted"
             /\ UNCHANGED <<temp_info, chat_members, chat_admins, members_queued_to_kick,
                            round_counter, time_wait, save_state, answer_block>>
       /\ (pc = "aborted" /\ pc' = "aborted")
          => /\ UNCHANGED <<chat_members, chat_admins, members_queued_to_kick, round_counter,
                            time_wait>>
             /\ Range(temp_info.members_vk_page_ids)
                    \subseteq Range(temp_info'.members_vk_page_ids)
             /\ Len(temp_info'.members_answered_on_quiz)
                    >= Len(temp_info.members_answered_on_quiz)
             /\ Len(temp_info'.members_answered_on_quiz_right)
                    >= Len(temp_info.members_answered_on_quiz_right)
             /\ (save_state' # save_state => proc = "finalizing")
       /\ (pc = "aborted" /\ pc' # "aborted")
          => \/ pc' = "idle"
             \/ pc' = "loop" /\ temp_info.start_function_first_start]_vars

\* a round was left by the stop event with an answer on its list
C27_Witness ==
    /\ pc = "aborted"
    /\ temp_info.members_answered_on_quiz # <<>>
    /\ Mode = "Normal"

\* C28: once the stop event is set while the quiz thread waits (in the
\* countdown, in the blitz wait for both answers, in the wait for new
\* questions, or in the wait for a malformed question file to be repaired),
\* the quiz thread ends.
C28_StopEndsThread ==
    (stop_event /\ pc \in {"timer", "blitz_wait", "pool_wait", "json_wait"})
        ~> (pc \notin Alive)

\* C29: with the blitz wait running (Blitz mode, two members) the round is
\* closed only when both members of the roster are on the list of those who
\* answered, whoever else has answered; the wait is left otherwise only on
\* the stop event.
C29_BlitzClosesOnBoth ==
    [][(pc = "blitz_wait" /\ pc' # pc)
          => \/ /\ pc' = "close"
                /\ Range(temp_info.members_vk_page_ids)
                       \subseteq Range(temp_info.members_answered_on_quiz)
             \/ pc' = "timer" /\ stop_event
             \/ pc' = "loop" /\ temp_info.start_function_first_start
             \/ pc' = "idle"]_vars

\* C30: a page that the close of a round takes off the roster is no longer
\* in the chat when the kick is over: the roster loses a page only if the
\* remote removal of that page succeeded.
C30_KickConsistent ==
    [][(pc = "kick" /\ pc' = "reset")
          => \A m \in Range(temp_info.members_vk_page_ids) :
                 m \notin Range(temp_info'.members_vk_page_ids)
                     => m \notin chat_members']_vars

\* C31: a fault in an answer handler ends that handler alone: a flag is
\* left, Handler._locker is free again (it is never held with no handler
\* running), the quiz thread is where it was with its round untouched, and
\* the answer events that follow are handled.
C31_HandlerFaultIsolated ==
    [][/\ (h' = HandlerIdle) => (locker' # "answer")
       /\ HFault
             => /\ "now" \in flags'
                /\ UNCHANGED <<proc, pc, stop_event, answer_block, temp_info, quizVars,
                               rounds_opened, save_state, events>>]_vars

\* after a handler's fault another answer was accepted and its round closed
C31_Witness ==
    /\ "now" \in flags
    /\ temp_info.members_answered_on_quiz_right # <<>>
    /\ pc \in {"kick", "reset"}
    /\ replies < events
    /\ h = HandlerIdle

\* C32: the quiz thread's steps at the bounds of a round (opening the
\* window, closing it, the kicks, clearing the lists of the round) are not
\* taken while an answer handler or a command is inside its critical section.
C32_OneLock ==
    [][(Publish \/ CloseBlock \/ EndOfTimeKick \/ EndOfTimeReset \/ EndOfTimeClearRight)
          => locker = "free"]_vars

\* C33: no page is on the roster and on the admin list at once, and the
\* close of a round kicks no admin.
C33_AdminsApart ==
    /\ Range(temp_info.members_vk_page_ids) \cap temp_info.admin_vk_pages_ids = {}
    /\ members_queued_to_kick \cap temp_info.admin_vk_pages_ids = {}

C35_RoundCloseResets ==
    [][/\ EndOfTimeReset => (round_counter' = round_counter + 1 /\ time_wait' = 0)
       /\ EndOfTimeClearRight
             => /\ temp_info'.members_answered_on_quiz = <<>>
                /\ temp_info'.members_answered_on_quiz_right = <<>>
       /\ round_counter' >= 1
       /\ (round_counter' < round_counter /\ proc' \in {"running", "finalizing"})
             => /\ round_counter' = 1
                /\ ~temp_info.blitz_start
                /\ temp_info'.blitz_start]_vars

\* C36: a pass of the countdown that finds the stop event set never sends the
\* quiz thread on to the close of the round, whatever the elapsed time.
C36_StopBeatsTimer ==
    [][((TimerTick \/ BlitzWait) /\ stop_event) => pc' # "close"]_vars

\* C37: a /start that starts a quiz thread is carried out only while no quiz
\* thread is running.
C37_OneQuizThread ==
    [][(\E u \in Users : StartCommand(u)) => pc \notin Alive]_vars

\* C38: when the window of a round that is no replay of a saved round is
\* opened (a clean start, or a later round of the process), both answer lists
\* of the round are empty.
C38_NewRoundStartsEmpty ==
    [][(Publish /\ ~answer_block' /\ (dump_data = <<>> \/ rounds_opened >= 1))
          => /\ temp_info'.members_answered_on_quiz = <<>>
             /\ temp_info'.members_answered_on_quiz_right = <<>>]_vars

\* C39: when the quiz thread publishes a question, current_question_number
\* is an index of the loaded question list counted from 0.
C39_IndexInPool ==
    [][Publish => (0 <= current_question_number
                     /\ current_question_number < Len(questions_list))]_vars

\* C40: a step of the answer handler for a page that is not on the member
\* list changes neither answer list of the round nor any score.
C40_OnlyRosterAnswers ==
    [][((HRecord \/ HAppend) /\ h.user \notin Range(temp_info.members_vk_page_ids))
          => /\ temp_info'.members_answered_on_quiz = temp_info.members_answered_on_quiz
             /\ temp_info'.members_answered_on_quiz_right
                    = temp_info.members_answered_on_quiz_right
             /\ temp_info'.members_scores = temp_info.members_scores]_vars

====
